---- MODULE Spec2Model ----
(***************************************************************************)
(* The per-tick adapter pipeline of bevy-tnua for the Avian2D backend      *)
(* (avian2d/src/lib.rs) and the Rapier2D backend (src/backend_rapier2d.rs):*)
(* rigid-body tracker updater, proximity sensor updater, obstacle radar    *)
(* updater and motor applier.                                              *)
(***************************************************************************)
EXTENDS Integers, Sequences, FiniteSets, TLC

\* ------------------------------------------------------------------ bounds

\* Bodies known to the physics engine (entity ids 1..NumEntities).
NumEntities == 3
\* Entities that carry the Tnua components (tracker, motor, toggle, radar).
NumCharacters == 2
\* Longest manifold list of one contact pair.
MaxManifolds == 2
\* Ticks a behaviour runs for (the velocities grow with every motor tick).
MaxTicks == 3

Entities == 1..NumEntities
Characters == 1..NumCharacters

\* The one entity that carries the TnuaProximitySensor (and the optional
\* TnuaGhostSensor / TnuaSubservientSensor) in this model.
SensorEntity == 1

\* ------------------------------------------------------------------ values

\* A float is finite (an integer) or not finite (NaN, +-inf).
F(n) == [fin |-> TRUE, val |-> n]
NaNF == [fin |-> FALSE, val |-> 0]
FAdd(a, b) == IF a.fin /\ b.fin THEN F(a.val + b.val) ELSE NaNF

\* Vec3::is_finite: every component is finite.
IsFinite3(v) == v[1].fin /\ v[2].fin /\ v[3].fin
\* Vec3::truncate on a finite vector: the planar part.
Truncate(v) == <<v[1].val, v[2].val>>

Zero2 == <<0, 0>>
Zero3 == <<0, 0, 0>>
Add2(a, b) == <<a[1] + b[1], a[2] + b[2]>>
Sub2(a, b) == <<a[1] - b[1], a[2] - b[2]>>
Add3(a, b) == <<a[1] + b[1], a[2] + b[2], a[3] + b[3]>>
Scale2(v, k) == <<v[1] * k, v[2] * k>>
Dot2(a, b) == a[1] * b[1] + a[2] * b[2]
\* Vec2::extend(0.0)
Extend(v) == <<v[1], v[2], 0>>
\* Vec3::cross
Cross(a, b) == <<a[2] * b[3] - a[3] * b[2],
                 a[3] * b[1] - a[1] * b[3],
                 a[1] * b[2] - a[2] * b[1]>>
LengthSquared(v) == v[1] * v[1] + v[2] * v[2] + v[3] * v[3]

\* Option<&TnuaToggle>: "None" when the component is absent.
ToggleOptions == {"None", "Disabled", "SenseOnly", "Enabled"}
\* TnuaToggle::default()
TnuaToggleDefault == "Enabled"
\* tnua_toggle.copied().unwrap_or_default()
ToggleOrDefault(t) == IF t = "None" THEN TnuaToggleDefault ELSE t

\* ------------------------------------------------------------------- state

VARIABLES
    toggle,        \* [Characters -> ToggleOptions]
    gravity,       \* Res<Gravity>: Vec2
    translation,   \* [Entities -> Vec3]  GlobalTransform translation
    rotation,      \* [Entities -> Int]   GlobalTransform rotation (z angle)
    linvel,        \* [Entities -> Vec2]  LinearVelocity
    angvel,        \* [Entities -> Int]   AngularVelocity
    tracker,       \* [Characters -> TnuaRigidBodyTracker]
    motor,         \* [Characters -> TnuaMotor]
    mass,          \* [Characters -> Int]
    inertia,       \* [Characters -> Int]
    extForce,      \* [Characters -> Vec2] ExternalForce
    extTorque,     \* [Characters -> Int]  ExternalTorque
    sensorCfg,     \* TnuaProximitySensor configuration of SensorEntity
    sensorOutput,  \* TnuaProximitySensor::output, an Option (<<>> or <<o>>)
    ghostSensor,   \* Option<TnuaGhostSensor>: <<>> or <<sequence of outputs>>
    subservient,   \* Option<TnuaSubservientSensor>: <<>> or <<owner_entity>>
    shape,         \* whether a TnuaAvian2dSensorShape is attached
    alive,         \* [Entities -> BOOLEAN] other_object_query.get succeeds
    kinematic,     \* [Entities -> BOOLEAN] has transform and velocities
    ghostPlatform, \* [Entities -> BOOLEAN] Has<TnuaGhostPlatform>
    sensorBody,    \* [Entities -> BOOLEAN] Has<Sensor>
    layers,        \* [Entities -> Option CollisionLayers]
    collisions,    \* Res<Collisions>: a set of Contacts
    toi,           \* [Entities -> Int] time of impact of the cast, -1: no hit
    hitNormal,     \* [Entities -> Vec2] surface normal the query reports
    radar,         \* [Characters -> Option TnuaObstacleRadar]
    velocity,      \* Rapier: [Entities -> Velocity], float components
    rapierMotor,   \* Rapier: [Characters -> TnuaMotor] of that backend
    rapierOutput,  \* Rapier: TnuaProximitySensor::output
    stage,         \* schedule position inside a tick
    ticks,         \* ticks started so far
    pre,           \* the components as they were when the tick started
    lastOrder      \* iteration order of the last query.iter_mut() run

physVars == <<gravity, translation, rotation, linvel, angvel>>
motorVars == <<motor, mass, inertia, extForce, extTorque>>
sensorVars == <<sensorCfg, sensorOutput, ghostSensor, subservient, shape>>
worldVars == <<alive, kinematic, ghostPlatform, sensorBody, layers,
               collisions, toi, hitNormal>>
rapierVars == <<velocity, rapierMotor, rapierOutput>>
vars == <<toggle, physVars, tracker, motorVars, sensorVars, worldVars,
          radar, rapierVars, stage, ticks, pre, lastOrder>>

\* ------------------------------------------------- rigid-body tracker updater

\* The snapshot written for one entity.
TrackerOf(e) ==
    [translation |-> translation[e],
     rotation    |-> rotation[e],
     velocity    |-> Extend(linvel[e]),
     angvel      |-> <<0, 0, angvel[e]>>,
     gravity     |-> Extend(gravity)]

\* A tracker updater that does not read the toggle.
TrackerAfterIgnoringToggle(e) == TrackerOf(e)

\* One iteration of the loop body of update_rigid_body_trackers_system.
TrackerAfter(e) ==
    IF ToggleOrDefault(toggle[e]) = "Disabled"
    THEN tracker[e]
    ELSE TrackerOf(e)

update_rigid_body_trackers_system ==
    /\ tracker' = [e \in Characters |-> TrackerAfter(e)]
    /\ UNCHANGED <<toggle, physVars, motorVars, sensorVars, worldVars,
                   radar, rapierVars>>

\* -------------------------------------------------------------- motor applier

\* The four finiteness-gated channels applied to one enabled entity.
\* st = [linvel, angvel, extForce, extTorque], each a function of the entity.
ApplyChannels(e, st) ==
    LET m == motor[e] IN
    [linvel    |-> IF IsFinite3(m.lin.boost)
                   THEN [st.linvel EXCEPT ![e] = Add2(@, Truncate(m.lin.boost))]
                   ELSE st.linvel,
     extForce  |-> IF IsFinite3(m.lin.acceleration)
                   THEN [st.extForce EXCEPT
                            ![e] = Scale2(Truncate(m.lin.acceleration), mass[e])]
                   ELSE st.extForce,
     angvel    |-> IF IsFinite3(m.ang.boost)
                   THEN [st.angvel EXCEPT ![e] = @ + m.ang.boost[3].val]
                   ELSE st.angvel,
     extTorque |-> IF IsFinite3(m.ang.acceleration)
                   THEN [st.extTorque EXCEPT
                            ![e] = inertia[e] * m.ang.acceleration[3].val]
                   ELSE st.extTorque]

\* What the loop does when it meets a Disabled or SenseOnly entity at position
\* i of the iteration: the force is reset and the function returns, so the
\* entities after position i are not visited.
NotEnabledArm(order, i, st) ==
    [st EXCEPT !.extForce[order[i]] = Zero2]

\* The for loop of apply_motors_system over the query's iteration order.
RECURSIVE MotorLoop(_, _, _)
MotorLoop(order, i, st) ==
    IF i > Len(order) THEN st
    ELSE IF ToggleOrDefault(toggle[order[i]]) \in {"Disabled", "SenseOnly"}
         THEN NotEnabledArm(order, i, st)
         ELSE MotorLoop(order, i + 1, ApplyChannels(order[i], st))

MotorState ==
    [linvel |-> linvel, angvel |-> angvel,
     extForce |-> extForce, extTorque |-> extTorque]

\* The orders in which a query may yield the characters.
IterationOrders ==
    {s \in [1..NumCharacters -> Characters] :
        \A i, j \in 1..NumCharacters : i # j => s[i] # s[j]}

apply_motors_system ==
    \E order \in IterationOrders :
        LET st == MotorLoop(order, 1, MotorState) IN
        /\ linvel' = st.linvel
        /\ angvel' = st.angvel
        /\ extForce' = st.extForce
        /\ extTorque' = st.extTorque
        /\ lastOrder' = order
        /\ UNCHANGED <<toggle, gravity, translation, rotation, tracker,
                       motor, mass, inertia, sensorVars, worldVars,
                       radar, rapierVars>>

\* --------------------------------------------------- proximity sensor updater

None == <<>>
Some(x) == <<x>>
IsSome(o) == o # <<>>
Unwrap(o) == o[1]

\* Quat (about z, in quarter turns) applied to a planar vector.
RECURSIVE Rotate(_, _)
Rotate(k, v) == IF k = 0 THEN v ELSE Rotate(k - 1, <<0 - v[2], v[1]>>)

\* GlobalTransform::transform_point, planar part (unit scale).
TransformPoint(e, p) == Add2(Rotate(rotation[e] % 4, <<p[1], p[2]>>),
                             <<translation[e][1], translation[e][2]>>)

\* The owner the sensor acts for: the subservient back-reference when present.
OwnerEntity == IF IsSome(subservient) THEN Unwrap(subservient) ELSE SensorEntity

\* CollisionLayers::default(): member of the first layer, filters every layer.
AllLayers == {1, 2}
DefaultLayers == [memberships |-> {1}, filters |-> AllLayers]
\* Option<&CollisionLayers>.copied().unwrap_or_default()
LayersOrDefault(o) == IF IsSome(o) THEN Unwrap(o) ELSE DefaultLayers
\* CollisionLayers::interacts_with
InteractsWith(a, b) ==
    /\ a.memberships \cap b.filters # {}
    /\ b.memberships \cap a.filters # {}

\* excluded_by_collision_layers: the owner's layers against the hit entity's.
ExcludedByCollisionLayers(entity) ==
    ~InteractsWith(LayersOrDefault(layers[OwnerEntity]),
                   LayersOrDefault(layers[entity]))

\* collisions.get(a, b): the Contacts of the pair, in either order.
CollisionsGet(a, b) ==
    {c \in collisions : {c.entity1, c.entity2} = {a, b}}

\* A manifold normal read from the side of the hit entity instead.
ManifoldNormalOtherSide(c, manifold) ==
    IF OwnerEntity = c.entity1 THEN manifold.normal1 ELSE manifold.normal2

\* The normal the loop reads from a manifold of contacts c.
ManifoldNormal(c, manifold) ==
    IF OwnerEntity = c.entity1 THEN manifold.normal2 ELSE manifold.normal1

\* Whether one manifold makes the hit a false positive.
ManifoldMatches(c, manifold) ==
    /\ manifold.contacts > 0
    /\ sensorCfg.cutoff <
           Dot2(ManifoldNormal(c, manifold),
                <<sensorCfg.cast_direction[1], sensorCfg.cast_direction[2]>>)

\* The issue-14 check at the top of apply_cast.
ManifoldSuppressed(entity) ==
    \E c \in CollisionsGet(OwnerEntity, entity) :
        \E i \in 1..Len(c.manifolds) : ManifoldMatches(c, c.manifolds[i])

\* entity_angvel of the output.
EntityAngvel(entity) ==
    IF kinematic[entity] THEN <<0, 0, angvel[entity]>> ELSE Zero3

\* entity_linvel of the output: the velocity of the hit body at the point.
EntityLinvel(entity, intersection_point) ==
    IF kinematic[entity]
    THEN Add3(Extend(linvel[entity]),
              IF 0 < LengthSquared(EntityAngvel(entity))
              THEN Cross(EntityAngvel(entity),
                         Extend(Sub2(intersection_point,
                                     <<translation[entity][1],
                                       translation[entity][2]>>)))
              ELSE Zero3)
    ELSE Zero3

\* The TnuaProximitySensorOutput built for a cast result.
SensorOutputOf(hit) ==
    [entity        |-> hit.entity,
     proximity     |-> hit.proximity,
     normal        |-> hit.normal,
     entity_linvel |-> EntityLinvel(hit.entity, hit.intersection_point),
     entity_angvel |-> EntityAngvel(hit.entity)]

\* A classification that lets a sensor body or a body excluded by the
\* collision layers stop the cast.
ClassifyWithoutFilters(hit, acc) ==
    IF ghostPlatform[hit.entity]
    THEN [cont   |-> TRUE,
          output |-> acc.output,
          ghost  |-> IF IsSome(acc.ghost)
                     THEN Some(Append(Unwrap(acc.ghost), SensorOutputOf(hit)))
                     ELSE acc.ghost]
    ELSE [cont |-> FALSE, output |-> Some(SensorOutputOf(hit)),
          ghost |-> acc.ghost]

\* The classification at the end of apply_cast, for a hit whose lookup
\* succeeded.  acc = [output, ghost]; cont is the closure's return value.
Classify(hit, acc) ==
    IF ghostPlatform[hit.entity]
    THEN [cont   |-> TRUE,
          output |-> acc.output,
          ghost  |-> IF IsSome(acc.ghost)
                     THEN Some(Append(Unwrap(acc.ghost), SensorOutputOf(hit)))
                     ELSE acc.ghost]
    ELSE IF sensorBody[hit.entity] \/ ExcludedByCollisionLayers(hit.entity)
    THEN [cont |-> TRUE, output |-> acc.output, ghost |-> acc.ghost]
    ELSE [cont |-> FALSE, output |-> Some(SensorOutputOf(hit)),
          ghost |-> acc.ghost]

\* A lookup failure that lets the cast go on to the next hit.
LookupFailedContinues(hit, acc) ==
    [cont |-> TRUE, output |-> acc.output, ghost |-> acc.ghost]

\* The let-else on other_object_query.get(entity).
LookupFailed(hit, acc) ==
    [cont |-> FALSE, output |-> acc.output, ghost |-> acc.ghost]

\* The closure apply_cast.
ApplyCast(hit, acc) ==
    IF ManifoldSuppressed(hit.entity)
    THEN [cont |-> TRUE, output |-> acc.output, ghost |-> acc.ghost]
    ELSE IF ~alive[hit.entity]
    THEN LookupFailed(hit, acc)
    ELSE Classify(hit, acc)

\* ray_hits_callback / shape_hits_callback: the callback is called hit after
\* hit until it returns false.
RECURSIVE HitsCallback(_, _, _)
HitsCallback(hits, i, acc) ==
    IF i > Len(hits) THEN acc
    ELSE LET r == ApplyCast(hits[i], acc) IN
         IF r.cont
         THEN HitsCallback(hits, i + 1, [output |-> r.output, ghost |-> r.ghost])
         ELSE [output |-> r.output, ghost |-> r.ghost]

\* World-space cast origin.
CastOrigin == TransformPoint(SensorEntity, sensorCfg.cast_origin)
CastDirection2d == <<sensorCfg.cast_direction[1], sensorCfg.cast_direction[2]>>

\* Dir3::new(n.extend(0.0)).unwrap_or_else(|_| -cast_direction)
NormalOrFallback(n) ==
    IF n = Zero2
    THEN <<0 - sensorCfg.cast_direction[1], 0 - sensorCfg.cast_direction[2],
           0 - sensorCfg.cast_direction[3]>>
    ELSE Extend(n)

\* The entities the spatial query reports: on the cast, within range, and not
\* the excluded owner.
HitEntities ==
    {e \in Entities :
        /\ e # OwnerEntity
        /\ toi[e] >= 0
        /\ toi[e] <= sensorCfg.cast_range}

\* The nearest-first orders in which the query may report them.
HitOrders ==
    {s \in [1..Cardinality(HitEntities) -> HitEntities] :
        /\ \A i, j \in DOMAIN s : i # j => s[i] # s[j]
        /\ \A i, j \in DOMAIN s : i < j => toi[s[i]] <= toi[s[j]]}

\* The CastResult built from a ray hit or a shape hit.
CastResult(e) ==
    [entity    |-> e,
     proximity |-> toi[e],
     intersection_point |->
         IF shape
         THEN Add2(Add2(CastOrigin, Scale2(CastDirection2d, toi[e])),
                   hitNormal[e])
         ELSE Add2(CastOrigin, Scale2(CastDirection2d, toi[e])),
     normal    |-> NormalOrFallback(hitNormal[e])]

CastResults(order) == [i \in DOMAIN order |-> CastResult(order[i])]

\* A ghost sequence that is not cleared before the cast.
GhostKept == ghostSensor

\* The ghost sequence after ghost_sensor.0.clear().
GhostCleared == IF IsSome(ghostSensor) THEN Some(<<>>) ELSE ghostSensor

\* The per-entity closure of update_proximity_sensors_system.
update_proximity_sensors_system ==
    /\ IF ToggleOrDefault(toggle[SensorEntity]) = "Disabled"
       THEN UNCHANGED <<sensorOutput, ghostSensor>>
       ELSE \E order \in HitOrders :
               LET r == HitsCallback(CastResults(order), 1,
                                     [output |-> None, ghost |-> GhostCleared])
               IN /\ sensorOutput' = r.output
                  /\ ghostSensor' = r.ghost
    /\ UNCHANGED <<toggle, physVars, tracker, motorVars, worldVars,
                   sensorCfg, subservient, shape, radar, rapierVars>>

\* ----------------------------------------------------- obstacle radar updater

\* TnuaObstacleRadar::pre_marking_update: the seen-set starts the tick empty.
PreMarkingUpdate(r) == [r EXCEPT !.seen = {}]
\* TnuaObstacleRadar::mark_seen
MarkSeen(r, obstacle_entity) == [r EXCEPT !.seen = @ \cup {obstacle_entity}]

Abs(x) == IF x < 0 THEN 0 - x ELSE x

\* The entities whose collider meets Collider::rectangle(2 * radius, height)
\* centred at the radar owner's position.
Intersections(owner) ==
    LET r == Unwrap(radar[owner]) IN
    {e \in Entities :
        /\ Abs(translation[e][1] - translation[owner][1]) <= r.radius
        /\ 2 * Abs(translation[e][2] - translation[owner][2]) <= r.height}

\* A callback that marks the owner of the radar as well.
RadarCallbackMarksOwner(radar_owner_entity, r, obstacle_entity) ==
    MarkSeen(r, obstacle_entity)

\* The callback given to shape_intersections_callback.
RadarCallback(radar_owner_entity, r, obstacle_entity) ==
    IF radar_owner_entity = obstacle_entity THEN r
    ELSE MarkSeen(r, obstacle_entity)

\* shape_intersections_callback: the callback runs once per intersecting
\* entity, in the order the query reports them.
RECURSIVE IntersectionsCallback(_, _, _, _)
IntersectionsCallback(owner, found, i, r) ==
    IF i > Len(found) THEN r
    ELSE IntersectionsCallback(owner, found, i + 1,
                               RadarCallback(owner, r, found[i]))

\* The orders in which the spatial query may report the bodies.
ReportOrders ==
    {s \in [1..NumEntities -> Entities] :
        \A i, j \in 1..NumEntities : i # j => s[i] # s[j]}

\* What one intersection query reports: the intersecting bodies, in order.
Found(owner, order) ==
    LET Meets(e) == e \in Intersections(owner) IN SelectSeq(order, Meets)

\* The loop body of update_obstacle_radars_system for one radar entity.
RadarAfter(owner, found) ==
    IntersectionsCallback(owner, found, 1, PreMarkingUpdate(Unwrap(radar[owner])))

update_obstacle_radars_system ==
    /\ IF \A c \in Characters : ~IsSome(radar[c])
       THEN UNCHANGED radar
       ELSE \E order \in ReportOrders :
               radar' = [c \in Characters |->
                            IF IsSome(radar[c])
                            THEN Some(RadarAfter(c, Found(c, order)))
                            ELSE None]
    /\ UNCHANGED <<toggle, physVars, tracker, motorVars, sensorVars, worldVars,
                   rapierVars>>

\* ------------------------------------------------------------ Rapier2D backend

FZero == F(0)
FVec2(v) == <<F(v[1]), F(v[2])>>
FVec3(v) == <<F(v[1]), F(v[2]), F(v[3])>>
FAdd2(a, b) == <<FAdd(a[1], b[1]), FAdd(a[2], b[2])>>

\* cast_ray_and_get_normal / cast_shape with exclude_rigid_body(owner_entity):
\* the nearest hit of the cast, if any.
RapierHitEntities ==
    {e \in Entities :
        /\ e # SensorEntity
        /\ toi[e] >= 0
        /\ toi[e] <= sensorCfg.cast_range}

RapierCastResults ==
    IF RapierHitEntities = {} THEN {None}
    ELSE {Some([entity |-> e, proximity |-> toi[e], normal |-> hitNormal[e]]) :
            e \in {x \in RapierHitEntities :
                      \A y \in RapierHitEntities : toi[x] <= toi[y]}}

\* The output written for a cast result.
RapierOutputOf(cast_result) ==
    IF IsSome(cast_result)
    THEN LET hit == Unwrap(cast_result) IN
         Some([entity        |-> hit.entity,
               proximity     |-> hit.proximity,
               normal        |-> Extend(hit.normal),
               entity_linvel |->
                   IF kinematic[hit.entity]
                   THEN <<velocity[hit.entity].linvel[1],
                          velocity[hit.entity].linvel[2], FZero>>
                   ELSE FVec3(Zero3),
               entity_angvel |->
                   IF kinematic[hit.entity]
                   THEN <<FZero, FZero, velocity[hit.entity].angvel>>
                   ELSE FVec3(Zero3)])
    ELSE None

rapier_update_proximity_sensors_system ==
    /\ \E cast_result \in RapierCastResults :
          rapierOutput' = RapierOutputOf(cast_result)
    /\ UNCHANGED <<toggle, physVars, tracker, motorVars, sensorVars, worldVars,
                   radar, velocity, rapierMotor>>

\* The loop body of the Rapier apply_motors_system for one entity.
RapierVelocityAfter(e) ==
    IF ~IsFinite3(rapierMotor[e].desired_acceleration)
    THEN velocity[e]
    ELSE [linvel |-> FAdd2(velocity[e].linvel,
                           <<rapierMotor[e].desired_acceleration[1],
                             rapierMotor[e].desired_acceleration[2]>>),
          angvel |-> FAdd(velocity[e].angvel, rapierMotor[e].desired_angacl[3])]

rapier_apply_motors_system ==
    /\ velocity' = [e \in Entities |->
                       IF e \in Characters THEN RapierVelocityAfter(e)
                       ELSE velocity[e]]
    /\ UNCHANGED <<toggle, physVars, tracker, motorVars, sensorVars, worldVars,
                   radar, rapierOutput, rapierMotor>>

\* ------------------------------------------------------- schedule and history

\* The components the systems write, as a record (taken when a tick starts).
Snapshot ==
    [tracker |-> tracker, sensorOutput |-> sensorOutput,
     ghostSensor |-> ghostSensor, linvel |-> linvel, angvel |-> angvel,
     extForce |-> extForce, extTorque |-> extTorque, radar |-> radar,
     velocity |-> velocity]

SensorsStage == {"trackers", "sensors", "radars"}

\* One system run on its own: the tick starts here.
Alone(system, name) ==
    /\ ticks < MaxTicks
    /\ ticks' = ticks + 1
    /\ system
    /\ pre' = Snapshot
    /\ stage' = {name}

\* One system run once from the initial state.
Once(system, name) ==
    /\ ticks = 0
    /\ ticks' = 1
    /\ system
    /\ pre' = Snapshot
    /\ stage' = {name}

SensorsOnce ==
    Once(update_proximity_sensors_system, "sensors") /\ UNCHANGED lastOrder
RadarsOnce ==
    Once(update_obstacle_radars_system, "radars") /\ UNCHANGED lastOrder
RapierSensorsOnce ==
    Once(rapier_update_proximity_sensors_system, "rapier_sensors")
    /\ UNCHANGED lastOrder

MotorsAlone == Alone(apply_motors_system, "motors")
RapierMotorsAlone ==
    Alone(rapier_apply_motors_system, "rapier_motors") /\ UNCHANGED lastOrder

\* The plugin's schedule: the three sensor systems in TnuaPipelineStages::Sensors
\* in any order, then apply_motors_system in TnuaPipelineStages::Motors.
InSensorsStage(system, name) ==
    /\ name \notin stage
    /\ "motors" \notin stage
    /\ system
    /\ stage' = stage \cup {name}
    /\ UNCHANGED <<ticks, pre, lastOrder>>

StageTrackers == InSensorsStage(update_rigid_body_trackers_system, "trackers")
StageSensors == InSensorsStage(update_proximity_sensors_system, "sensors")
StageRadars == InSensorsStage(update_obstacle_radars_system, "radars")
StageMotors ==
    /\ SensorsStage \subseteq stage
    /\ "motors" \notin stage
    /\ apply_motors_system
    /\ stage' = stage \cup {"motors"}
    /\ UNCHANGED <<ticks, pre>>

\* ------------------------------------------------------------- initial states

LayerB == [memberships |-> {2}, filters |-> {2}]
Down == <<0, 0 - 1, 0>>
Up2 == <<0, 1>>

NaN3 == <<NaNF, NaNF, NaNF>>
MotorChannels == {NaN3, <<F(1), F(2), F(3)>>}
IdleMotor == [lin |-> [boost |-> NaN3, acceleration |-> NaN3],
              ang |-> [boost |-> NaN3, acceleration |-> NaN3]]
Motors ==
    [lin : [boost : MotorChannels, acceleration : MotorChannels],
     ang : [boost : MotorChannels, acceleration : MotorChannels]]

\* A tracker and an output left by an earlier tick.
StaleTracker ==
    [translation |-> <<9, 9, 0>>, rotation |-> 0, velocity |-> <<9, 9, 0>>,
     angvel |-> <<0, 0, 9>>, gravity |-> <<0, 9, 0>>]
StaleOutput ==
    [entity |-> NumEntities, proximity |-> 9, normal |-> <<0, 1, 0>>,
     entity_linvel |-> Zero3, entity_angvel |-> Zero3]

Obstacles == Entities \ {SensorEntity}

TogglesAny == toggle \in [Characters -> ToggleOptions]
TogglesEnabled == toggle = [c \in Characters |-> "Enabled"]

\* Entity e stands e - 1 below the sensor entity, which is at the origin.
PhysDefault ==
    /\ gravity = <<0, 0 - 1>>
    /\ translation = [e \in Entities |-> <<0, 1 - e, 0>>]
    /\ rotation = [e \in Entities |-> 0]
    /\ linvel = [e \in Entities |-> <<e, 0>>]
    /\ angvel = [e \in Entities |-> 0]

TrackerStale == tracker = [c \in Characters |-> StaleTracker]

MotorDefault ==
    /\ motor = [c \in Characters |-> IdleMotor]
    /\ mass = [c \in Characters |-> 2]
    /\ inertia = [c \in Characters |-> 3]
    /\ extForce = [c \in Characters |-> <<5, 6>>]
    /\ extTorque = [c \in Characters |-> 7]

SensorCfgOf(range, cutoff) ==
    [cast_origin |-> Zero3, cast_direction |-> Down,
     cast_range |-> range, cutoff |-> cutoff]

SensorDefault ==
    /\ sensorCfg = SensorCfgOf(NumEntities, 0)
    /\ sensorOutput = Some(StaleOutput)
    /\ ghostSensor = Some(<<StaleOutput>>)
    /\ subservient = None
    /\ shape = FALSE

\* Every body alive, solid, with velocities, in no contact; obstacle e is hit
\* e - 1 along the cast, the sensor entity's own body is not on its cast.
WorldDefault ==
    /\ alive = [e \in Entities |-> TRUE]
    /\ kinematic = [e \in Entities |-> TRUE]
    /\ ghostPlatform = [e \in Entities |-> FALSE]
    /\ sensorBody = [e \in Entities |-> FALSE]
    /\ layers = [e \in Entities |-> None]
    /\ collisions = {}
    /\ toi = [e \in Entities |-> IF e = SensorEntity THEN 0 - 1 ELSE e - 1]
    /\ hitNormal = [e \in Entities |-> Up2]

RadarDefault == radar = [c \in Characters |-> None]

\* The Rapier world holds the same velocities.
RapierDefault ==
    /\ velocity = [e \in Entities |->
                      [linvel |-> FVec2(linvel[e]), angvel |-> F(angvel[e])]]
    /\ rapierMotor = [c \in Characters |->
                         [desired_acceleration |-> NaN3, desired_angacl |-> NaN3]]
    /\ rapierOutput = None

HistoryInit ==
    /\ stage = {}
    /\ ticks = 0
    /\ pre = Snapshot
    /\ lastOrder = <<>>

\* Motor applier, Avian2D: any toggles, any combination of finite channels.
InitAvianMotors ==
    /\ TogglesAny /\ PhysDefault /\ TrackerStale
    /\ motor \in [Characters -> Motors]
    /\ mass = [c \in Characters |-> 2]
    /\ inertia = [c \in Characters |-> 3]
    /\ extForce = [c \in Characters |-> <<5, 6>>]
    /\ extTorque = [c \in Characters |-> 7]
    /\ SensorDefault /\ WorldDefault /\ RadarDefault /\ RapierDefault
    /\ HistoryInit

\* Motor applier, Rapier2D: any combination of finite channels.
InitRapierMotors ==
    /\ TogglesEnabled /\ PhysDefault /\ TrackerStale /\ MotorDefault
    /\ SensorDefault /\ WorldDefault /\ RadarDefault
    /\ velocity = [e \in Entities |->
                      [linvel |-> FVec2(linvel[e]), angvel |-> F(angvel[e])]]
    /\ rapierMotor \in [Characters ->
                          [desired_acceleration : MotorChannels,
                           desired_angacl : MotorChannels]]
    /\ rapierOutput = None
    /\ HistoryInit

InitMotors == InitAvianMotors \/ InitRapierMotors
NextMotors == MotorsAlone \/ RapierMotorsAlone
SpecMotors == InitMotors /\ [][NextMotors]_vars

\* Proximity sensor, filters: every combination of lookup failure, ghost
\* platform, sensor body, collision layers and suppressing contact on every
\* obstacle; any toggle on the sensor entity; with and without a ghost sensor
\* and a subservient owner (entity 2); a short and a long cast range.
FilterProfiles ==
    {p \in [alive : BOOLEAN, ghost : BOOLEAN, sensor : BOOLEAN,
            layers : {None, Some(LayerB)}, contact : BOOLEAN] :
        ~p.alive => (~p.ghost /\ ~p.sensor /\ p.layers = None)}

\* Contacts of owner and e whose one manifold has a contact point and, on e's
\* side, a normal along the cast direction.
ContactAlongCast(owner, e) ==
    [entity1 |-> owner, entity2 |-> e,
     manifolds |-> <<[contacts |-> 1, normal1 |-> Up2,
                      normal2 |-> <<0, 0 - 1>>]>>]

SensorToggles ==
    {t \in [Characters -> ToggleOptions] :
        \A c \in Characters : c # SensorEntity => t[c] = "Enabled"}

InitFilters ==
    /\ toggle \in SensorToggles
    /\ PhysDefault /\ TrackerStale /\ MotorDefault
    /\ \E range \in {1, NumEntities} : sensorCfg = SensorCfgOf(range, 0)
    /\ sensorOutput = Some(StaleOutput)
    /\ ghostSensor \in {None, Some(<<StaleOutput>>)}
    /\ subservient \in {None, Some(2)}
    /\ shape = FALSE
    /\ \E prof \in [Obstacles -> FilterProfiles] :
          /\ alive = [e \in Entities |-> e = SensorEntity \/ prof[e].alive]
          /\ kinematic = alive
          /\ ghostPlatform = [e \in Entities |-> e # SensorEntity /\ prof[e].ghost]
          /\ sensorBody = [e \in Entities |-> e # SensorEntity /\ prof[e].sensor]
          /\ layers = [e \in Entities |->
                          IF e = SensorEntity THEN None ELSE prof[e].layers]
          /\ collisions = {ContactAlongCast(OwnerEntity, e) :
                              e \in {x \in Obstacles :
                                        prof[x].contact /\ x # OwnerEntity}}
    /\ toi = [e \in Entities |-> IF e = SensorEntity THEN 0 - 1 ELSE e - 1]
    /\ hitNormal = [e \in Entities |-> Up2]
    /\ RadarDefault /\ RapierDefault /\ HistoryInit

\* Proximity sensor, order: every obstacle anywhere on or off the cast (so
\* equal distances too), solid, ghost or gone; every cast range.
OrderProfiles == {"solid", "ghost", "gone"}
Distances == (0 - 1)..(NumEntities - 1)

InitOrder ==
    /\ TogglesEnabled /\ PhysDefault /\ TrackerStale /\ MotorDefault
    /\ \E range \in 0..(NumEntities - 1) : sensorCfg = SensorCfgOf(range, 0)
    /\ sensorOutput = Some(StaleOutput)
    /\ ghostSensor \in {None, Some(<<StaleOutput>>)}
    /\ subservient = None
    /\ shape = FALSE
    /\ \E prof \in [Obstacles -> OrderProfiles] :
          /\ alive = [e \in Entities |-> e = SensorEntity \/ prof[e] # "gone"]
          /\ kinematic = alive
          /\ ghostPlatform = [e \in Entities |->
                                 e # SensorEntity /\ prof[e] = "ghost"]
    /\ sensorBody = [e \in Entities |-> FALSE]
    /\ layers = [e \in Entities |-> None]
    /\ collisions = {}
    /\ toi \in {d \in [Entities -> Distances] : d[SensorEntity] = 0 - 1}
    /\ hitNormal = [e \in Entities |-> Up2]
    /\ RadarDefault /\ RapierDefault /\ HistoryInit

InitSensor == InitFilters \/ InitOrder
NextSensor == SensorsOnce
SpecSensor == InitSensor /\ [][NextSensor]_vars

\* Proximity sensor, manifolds: Collisions holds no contact pair or one, between
\* any two bodies in either order, with any manifold list up to MaxManifolds;
\* cutoff 0 or 1; with and without a subservient owner; ghost or solid bodies.
Along2 == <<0, 0 - 1>>
ManifoldKinds ==
    [contacts : {0, 1}, normal1 : {Up2, Along2}, normal2 : {Up2, Along2}]
ManifoldLists ==
    UNION {[1..n -> ManifoldKinds] : n \in 0..MaxManifolds}
ContactsChoices ==
    {c \in [entity1 : Entities, entity2 : Entities, manifolds : ManifoldLists] :
        c.entity1 # c.entity2}

InitManifold ==
    /\ TogglesEnabled /\ PhysDefault /\ TrackerStale /\ MotorDefault
    /\ \E cutoff \in {0, 1} : sensorCfg = SensorCfgOf(NumEntities, cutoff)
    /\ sensorOutput = Some(StaleOutput)
    /\ ghostSensor = Some(<<StaleOutput>>)
    /\ subservient \in {None, Some(2)}
    /\ shape = FALSE
    /\ alive = [e \in Entities |-> TRUE]
    /\ kinematic = alive
    /\ \E ghosts \in {{}, {NumEntities}, Obstacles} :
          ghostPlatform = [e \in Entities |-> e \in ghosts]
    /\ sensorBody = [e \in Entities |-> FALSE]
    /\ layers = [e \in Entities |-> None]
    /\ collisions \in {{}} \cup {{c} : c \in ContactsChoices}
    /\ toi = [e \in Entities |-> IF e = SensorEntity THEN 0 - 1 ELSE e - 1]
    /\ hitNormal = [e \in Entities |-> Up2]
    /\ RadarDefault /\ RapierDefault /\ HistoryInit

NextManifold == SensorsOnce
SpecManifold == InitManifold /\ [][NextManifold]_vars

\* Proximity sensor, kinematics: every obstacle gone, without velocities, or
\* with any of a few linear and angular velocities and centres; ghost or solid;
\* ray and shape casts; the sensor entity turned or not.  The Rapier world
\* holds the same bodies.
KinProfiles ==
    {p \in [alive : BOOLEAN, kinematic : BOOLEAN, ghost : BOOLEAN,
            linvel : {Zero2, <<1, 2>>}, angvel : {0, 1, 0 - 2},
            offset : {0, 1}] :
        /\ ~p.alive => (~p.kinematic /\ ~p.ghost)
        /\ ~p.kinematic => (p.linvel = Zero2 /\ p.angvel = 0 /\ p.offset = 0)}

InitKinematics ==
    /\ TogglesEnabled
    /\ gravity = <<0, 0 - 1>>
    /\ \E prof \in [Obstacles -> KinProfiles] :
          /\ translation = [e \in Entities |->
                               IF e = SensorEntity THEN Zero3
                               ELSE <<prof[e].offset, 1 - e, 0>>]
          /\ linvel = [e \in Entities |->
                          IF e = SensorEntity THEN Zero2 ELSE prof[e].linvel]
          /\ angvel = [e \in Entities |->
                          IF e = SensorEntity THEN 0 ELSE prof[e].angvel]
          /\ alive = [e \in Entities |-> e = SensorEntity \/ prof[e].alive]
          /\ kinematic = [e \in Entities |->
                             e = SensorEntity \/ prof[e].kinematic]
          /\ ghostPlatform = [e \in Entities |->
                                 e # SensorEntity /\ prof[e].ghost]
    /\ rotation \in {r \in [Entities -> {0, 1}] :
                        \A e \in Obstacles : r[e] = 0}
    /\ TrackerStale /\ MotorDefault
    /\ sensorCfg = [cast_origin |-> <<1, 0, 0>>, cast_direction |-> Down,
                    cast_range |-> NumEntities, cutoff |-> 0]
    /\ sensorOutput = Some(StaleOutput)
    /\ ghostSensor = Some(<<StaleOutput>>)
    /\ subservient = None
    /\ shape \in BOOLEAN
    /\ sensorBody = [e \in Entities |-> FALSE]
    /\ layers = [e \in Entities |-> None]
    /\ collisions = {}
    /\ toi = [e \in Entities |-> IF e = SensorEntity THEN 0 - 1 ELSE e - 1]
    /\ hitNormal = [e \in Entities |-> Up2]
    /\ RadarDefault /\ RapierDefault /\ HistoryInit

NextKinematics == SensorsOnce \/ RapierSensorsOnce
SpecKinematics == InitKinematics /\ [][NextKinematics]_vars

\* Obstacle radar: every body anywhere on a small grid; every character with no
\* radar or a radar of any small radius and height whose seen-set is empty or
\* holds every entity from an earlier tick.
RadarChoices ==
    {None} \cup {Some(r) : r \in [radius : {0, 1}, height : {0, 2},
                                  seen : {Entities}]}

InitRadar ==
    /\ TogglesEnabled
    /\ gravity = <<0, 0 - 1>>
    /\ \E x \in [Entities -> 0..2], y \in 0..1 :
          translation = [e \in Entities |->
                            <<x[e], IF e = NumEntities THEN y ELSE 0, 0>>]
    /\ rotation = [e \in Entities |-> 0]
    /\ linvel = [e \in Entities |-> <<e, 0>>]
    /\ angvel = [e \in Entities |-> 0]
    /\ TrackerStale /\ MotorDefault /\ SensorDefault /\ WorldDefault
    /\ radar \in [Characters -> RadarChoices]
    /\ RapierDefault /\ HistoryInit

NextRadar == RadarsOnce
SpecRadar == InitRadar /\ [][NextRadar]_vars

\* The whole pipeline in schedule order, tick after tick: any toggles, every
\* character with an idle or a full motor, a ghost or solid nearest obstacle.
FullMotor ==
    [lin |-> [boost |-> <<F(1), F(2), F(3)>>,
              acceleration |-> <<F(1), F(2), F(3)>>],
     ang |-> [boost |-> <<F(1), F(2), F(3)>>,
              acceleration |-> <<F(1), F(2), F(3)>>]]

InitTick ==
    /\ TogglesAny /\ PhysDefault /\ TrackerStale
    /\ motor \in [Characters -> {IdleMotor, FullMotor}]
    /\ mass = [c \in Characters |-> 2]
    /\ inertia = [c \in Characters |-> 3]
    /\ extForce = [c \in Characters |-> <<5, 6>>]
    /\ extTorque = [c \in Characters |-> 7]
    /\ SensorDefault
    /\ alive = [e \in Entities |-> TRUE]
    /\ kinematic = alive
    /\ \E ghosts \in {{}, {2}} : ghostPlatform = [e \in Entities |-> e \in ghosts]
    /\ sensorBody = [e \in Entities |-> FALSE]
    /\ layers = [e \in Entities |-> None]
    /\ collisions = {}
    /\ toi = [e \in Entities |-> IF e = SensorEntity THEN 0 - 1 ELSE e - 1]
    /\ hitNormal = [e \in Entities |-> Up2]
    /\ radar = [c \in Characters |->
                   IF c = SensorEntity
                   THEN Some([radius |-> 1, height |-> 2, seen |-> {}])
                   ELSE None]
    /\ RapierDefault /\ HistoryInit

\* The physics step between two ticks of the pipeline.
NextTick ==
    /\ "motors" \in stage
    /\ ticks < MaxTicks
    /\ ticks' = ticks + 1
    /\ stage' = {}
    /\ pre' = Snapshot
    /\ UNCHANGED <<toggle, physVars, tracker, motorVars, sensorVars, worldVars,
                   radar, rapierVars, lastOrder>>

NextPipeline ==
    StageTrackers \/ StageSensors \/ StageRadars \/ StageMotors \/ NextTick
SpecTick == InitTick /\ [][NextPipeline]_vars

\* The two updaters that read the toggle, run any number of times in any
\* order, while the controller changes toggles and the physics world changes
\* between runs.  Here pre holds, per entity, the tracker (and for the sensor
\* entity the output and ghost sequence) as they were when the entity's toggle
\* was last set.
StagesRun(system, name) ==
    /\ ticks < MaxTicks
    /\ ticks' = ticks + 1
    /\ system
    /\ stage' = stage \cup {name}
    /\ UNCHANGED <<pre, lastOrder>>

StagesTrackers == StagesRun(update_rigid_body_trackers_system, "trackers")
StagesSensors == StagesRun(update_proximity_sensors_system, "sensors")

\* The controller writes a TnuaToggle value to the toggle of one character.
SetToggle ==
    \E c \in Characters, t \in ToggleOptions \ {"None"} :
        /\ t # toggle[c]
        /\ toggle' = [toggle EXCEPT ![c] = t]
        /\ pre' = [pre EXCEPT
                      !.tracker[c] = tracker[c],
                      !.sensorOutput =
                          IF c = SensorEntity THEN sensorOutput ELSE @,
                      !.ghostSensor =
                          IF c = SensorEntity THEN ghostSensor ELSE @]
        /\ stage' = {}
        /\ UNCHANGED <<physVars, tracker, motorVars, sensorVars, worldVars,
                       radar, rapierVars, ticks, lastOrder>>

\* The physics world changes: gravity turns over and the nearest obstacle
\* becomes or stops being a ghost platform.
WorldChanges ==
    /\ gravity' = <<0 - gravity[1], 0 - gravity[2]>>
    /\ ghostPlatform' = [ghostPlatform EXCEPT ![2] = ~@]
    /\ stage' = {}
    /\ UNCHANGED <<toggle, translation, rotation, linvel, angvel, tracker,
                   motorVars, sensorVars, alive, kinematic, sensorBody, layers,
                   collisions, toi, hitNormal, radar, rapierVars, ticks, pre,
                   lastOrder>>

InitStages ==
    /\ TogglesAny /\ PhysDefault /\ TrackerStale /\ MotorDefault
    /\ SensorDefault /\ WorldDefault /\ RadarDefault /\ RapierDefault
    /\ HistoryInit

NextStages == StagesTrackers \/ StagesSensors \/ SetToggle \/ WorldChanges
SpecStages == InitStages /\ [][NextStages]_vars

\* ===================================================================== claims

\* What the motor applier owes entity e by e's own toggle and motor alone:
\* each finite channel applied to the values the tick started with.
LinvelOwed(e) ==
    IF IsFinite3(motor[e].lin.boost)
    THEN Add2(pre.linvel[e], Truncate(motor[e].lin.boost))
    ELSE pre.linvel[e]
ForceOwed(e) ==
    IF IsFinite3(motor[e].lin.acceleration)
    THEN Scale2(Truncate(motor[e].lin.acceleration), mass[e])
    ELSE pre.extForce[e]
AngvelOwed(e) ==
    IF IsFinite3(motor[e].ang.boost)
    THEN pre.angvel[e] + motor[e].ang.boost[3].val
    ELSE pre.angvel[e]
TorqueOwed(e) ==
    IF IsFinite3(motor[e].ang.acceleration)
    THEN inertia[e] * motor[e].ang.acceleration[3].val
    ELSE pre.extTorque[e]

NotEnabled(e) == toggle[e] \in {"Disabled", "SenseOnly"}
Enabled(e) == toggle[e] \in {"Enabled", "None"}

\* C1: after one run of the Avian2D apply_motors_system, in whatever order the
\* entities were visited, every Disabled or SenseOnly entity has zero external
\* force and every Enabled (or toggle-less) entity has each finite channel of
\* its motor applied; what an entity gets is decided by its own toggle and
\* motor, not by the toggle of another entity of the run.
C1_PerEntityIndependence ==
    "motors" \in stage =>
        \A e \in Characters :
            /\ NotEnabled(e) => extForce[e] = Zero2
            /\ Enabled(e) =>
                  /\ IsFinite3(motor[e].lin.boost) => linvel[e] = LinvelOwed(e)
                  /\ IsFinite3(motor[e].lin.acceleration) =>
                        extForce[e] = ForceOwed(e)
                  /\ IsFinite3(motor[e].ang.boost) => angvel[e] = AngvelOwed(e)
                  /\ IsFinite3(motor[e].ang.acceleration) =>
                        extTorque[e] = TorqueOwed(e)

\* C4: in the motor applier of either backend a channel is applied exactly when
\* that channel is finite, and a non-finite channel leaves its target as it
\* was.  Avian2D: the four channels of an enabled entity.  Rapier2D: the linear
\* channel desired_acceleration and the angular channel desired_angacl.
C4_ChannelsGatedByOwnFiniteness ==
    /\ "motors" \in stage =>
          \A e \in Characters :
              Enabled(e) =>
                  /\ linvel[e] = LinvelOwed(e)
                  /\ extForce[e] = ForceOwed(e)
                  /\ angvel[e] = AngvelOwed(e)
                  /\ extTorque[e] = TorqueOwed(e)
    /\ "rapier_motors" \in stage =>
          \A e \in Characters :
              /\ velocity[e].linvel =
                    IF IsFinite3(rapierMotor[e].desired_acceleration)
                    THEN FAdd2(pre.velocity[e].linvel,
                               <<rapierMotor[e].desired_acceleration[1],
                                 rapierMotor[e].desired_acceleration[2]>>)
                    ELSE pre.velocity[e].linvel
              /\ velocity[e].angvel =
                    IF IsFinite3(rapierMotor[e].desired_angacl)
                    THEN FAdd(pre.velocity[e].angvel,
                              rapierMotor[e].desired_angacl[3])
                    ELSE pre.velocity[e].angvel

\* ---- proximity sensor: the vocabulary of the claims

\* The sensor's toggle lets the sensor updater run.
Senses == toggle[SensorEntity] \in {"None", "SenseOnly", "Enabled"}
SensorRan == "sensors" \in stage

Output == Unwrap(sensorOutput)
GhostSeq == Unwrap(ghostSensor)
GhostSeqEntities == {GhostSeq[i].entity : i \in DOMAIN GhostSeq}

\* The hit on e is not a ghost platform, not a sensor-only body and not
\* excluded by the collision layers of the owner.
PassesFilters(e) ==
    /\ ~ghostPlatform[e]
    /\ ~sensorBody[e]
    /\ InteractsWith(LayersOrDefault(layers[OwnerEntity]),
                     LayersOrDefault(layers[e]))

\* A hit the claim calls valid.
ValidHit(e) ==
    e \in HitEntities /\ ~ManifoldSuppressed(e) /\ PassesFilters(e)

\* A hit that ends the cast: not suppressed, and either its entity cannot be
\* looked up or it passes the filters.
StoppingHit(e) ==
    e \in HitEntities /\ ~ManifoldSuppressed(e) /\ (~alive[e] \/ PassesFilters(e))

Nearest(S) == {e \in S : \A x \in S : toi[e] <= toi[x]}

\* C6 (as claimed): for an enabled or sense-only sensor the output after the
\* tick is the nearest hit in range that is not manifold-suppressed, not a ghost
\* platform, not a sensor body and not layer-excluded, and is empty when there
\* is no such hit.
C6_NearestValidHit ==
    (SensorRan /\ Senses) =>
        IF \E e \in Entities : ValidHit(e)
        THEN /\ IsSome(sensorOutput)
             /\ Output.entity \in Nearest({e \in Entities : ValidHit(e)})
             /\ Output.proximity = toi[Output.entity]
        ELSE sensorOutput = None

\* C6 (amended): the output is decided by the nearest hit in range that is not
\* manifold-suppressed and either fails the entity lookup or passes the
\* filters: the output is empty if its lookup fails, and is that hit otherwise;
\* with no such hit the output is empty.  The output entity is never a ghost
\* platform, a sensor body, a layer-excluded body or the resolved owner.
C6_NearestValidHitUnlessLookupFails ==
    (SensorRan /\ Senses) =>
        /\ IF \E e \in Entities : StoppingHit(e)
           THEN \E e \in Nearest({x \in Entities : StoppingHit(x)}) :
                   IF alive[e]
                   THEN /\ IsSome(sensorOutput)
                        /\ Output.entity = e
                        /\ Output.proximity = toi[e]
                   ELSE sensorOutput = None
           ELSE sensorOutput = None
        /\ IsSome(sensorOutput) =>
              /\ Output.entity # OwnerEntity
              /\ alive[Output.entity]
              /\ PassesFilters(Output.entity)

\* C6 witness: two bodies pass all filters at distances d1 < d2 and the nearer
\* one is the output, while a nearer ghost platform was passed.
C6_Witness ==
    /\ SensorRan /\ Senses
    /\ \E a, b \in Entities :
          /\ ValidHit(a) /\ ValidHit(b) /\ alive[a] /\ alive[b]
          /\ toi[a] < toi[b]
          /\ sensorOutput = Some(SensorOutputOf(CastResult(a)))

\* The ghost sequence lists distinct hits, nearest first, each at its distance.
RecordedInCastOrder(g) ==
    /\ \A i \in DOMAIN g : g[i].entity \in HitEntities
    /\ \A i \in DOMAIN g : g[i].proximity = toi[g[i].entity]
    /\ \A i, j \in DOMAIN g :
          i < j => (g[i].entity # g[j].entity /\ g[i].proximity <= g[j].proximity)

\* C7 (as claimed): a ghost-platform hit never becomes the output, and an
\* attached ghost sequence holds after the tick, in cast order, exactly one
\* entry for each ghost-platform hit reached before the hit that was recorded.
C7_GhostPlatformsRecorded ==
    SensorRan =>
        /\ IsSome(sensorOutput) => ~ghostPlatform[Output.entity]
        /\ IsSome(ghostSensor) =>
              /\ RecordedInCastOrder(GhostSeq)
              /\ \A e \in GhostSeqEntities :
                    /\ ghostPlatform[e]
                    /\ IsSome(sensorOutput) => toi[e] <= Output.proximity
              /\ \A e \in HitEntities :
                    (/\ ghostPlatform[e]
                     /\ IsSome(sensorOutput) => toi[e] < Output.proximity)
                    => e \in GhostSeqEntities

\* A ghost-platform hit that is recorded: looked up, not manifold-suppressed.
CountedGhost(e) ==
    e \in HitEntities /\ alive[e] /\ ghostPlatform[e] /\ ~ManifoldSuppressed(e)

\* C7 (amended): for a sensor that is not Disabled, a ghost-platform hit never
\* becomes the output, and an attached ghost sequence holds after the tick, in
\* cast order, exactly one entry for each ghost-platform hit that is not
\* manifold-suppressed and is reached before the cast stops (at the recorded
\* hit or at a hit whose lookup fails).
C7_UnsuppressedGhostsBeforeStop ==
    (SensorRan /\ Senses) =>
        /\ IsSome(sensorOutput) => ~ghostPlatform[Output.entity]
        /\ IsSome(ghostSensor) =>
              /\ RecordedInCastOrder(GhostSeq)
              /\ \A e \in GhostSeqEntities :
                    /\ CountedGhost(e)
                    /\ \A s \in Entities : StoppingHit(s) => toi[e] <= toi[s]
              /\ \A e \in Entities :
                    (/\ CountedGhost(e)
                     /\ \A s \in Entities : StoppingHit(s) => toi[e] < toi[s])
                    => e \in GhostSeqEntities

\* C7 witness: a ghost platform at d1 and a solid body at d2 > d1; the output
\* is the solid body and the ghost sequence holds the ghost platform.
C7_Witness ==
    /\ SensorRan /\ Senses /\ IsSome(ghostSensor) /\ IsSome(sensorOutput)
    /\ \E g \in Entities :
          /\ CountedGhost(g)
          /\ toi[g] < Output.proximity
          /\ ValidHit(Output.entity)
          /\ GhostSeq = <<SensorOutputOf(CastResult(g))>>

\* The normal of a manifold on the side of the hit entity e, whichever of the
\* two is first in the pair.
HitSideNormal(c, manifold, e) ==
    IF c.entity2 = e THEN manifold.normal2 ELSE manifold.normal1

\* Owner and e are a contact pair with a manifold (one with a contact point, if
\* withPoint) whose normal has a dot product with the cast direction above the
\* cutoff.
AlignedManifold(e, withPoint) ==
    \E c \in collisions :
        /\ {c.entity1, c.entity2} = {OwnerEntity, e}
        /\ \E i \in DOMAIN c.manifolds :
              /\ withPoint => c.manifolds[i].contacts > 0
              /\ Dot2(HitSideNormal(c, c.manifolds[i], e), CastDirection2d)
                     > sensorCfg.cutoff

\* The hit on e is passed over: not the output, not in the ghost sequence, and
\* a body behind it that passes the filters and is the first to end the cast
\* is the output.
PassedOver(e) ==
    /\ IsSome(sensorOutput) => Output.entity # e
    /\ IsSome(ghostSensor) => e \notin GhostSeqEntities
    /\ \A b \in Entities :
          (/\ ValidHit(b) /\ alive[b] /\ toi[e] < toi[b]
           /\ \A s \in Entities : (StoppingHit(s) /\ s # b) => toi[b] < toi[s])
          => (IsSome(sensorOutput) /\ Output.entity = b)

\* C8 (as claimed): when the owner and a hit entity E are in contact and any
\* manifold between them has a normal aligned with the cast direction above the
\* cutoff, the hit on E is neither the output nor in the ghost sequence, and the
\* cast goes on to the candidates behind E.
C8_ManifoldSuppression ==
    (SensorRan /\ Senses) =>
        \A e \in HitEntities : AlignedManifold(e, FALSE) => PassedOver(e)

\* C8 (amended): the same, for a manifold that holds at least one contact point.
C8_ManifoldWithContactSuppression ==
    (SensorRan /\ Senses) =>
        \A e \in HitEntities : AlignedManifold(e, TRUE) => PassedOver(e)

\* C8 witness: the nearest hit is suppressed by a manifold with a contact point
\* and the body behind it is the output.
C8_Witness ==
    /\ SensorRan /\ Senses /\ IsSome(sensorOutput)
    /\ \E e \in HitEntities :
          /\ AlignedManifold(e, TRUE)
          /\ \A x \in HitEntities : toi[e] <= toi[x]
          /\ toi[e] < Output.proximity
          /\ ~ghostPlatform[e]

\* The entity of the hit cannot be looked up, or has no transform and velocities.
LacksKinematicData(e) == ~alive[e] \/ ~kinematic[e]

\* C5 (as claimed): a hit on an entity without queryable kinematic data (the
\* lookup fails, or it has no transform and velocities) is never the output and
\* does not end the cast: the output is the nearest hit in range that has the
\* data and passes the filters.
C5_LookupFailureNonBlocking ==
    (SensorRan /\ Senses) =>
        LET good == {e \in Entities : ValidHit(e) /\ ~LacksKinematicData(e)} IN
        IF good = {} THEN sensorOutput = None
        ELSE IsSome(sensorOutput) /\ Output.entity \in Nearest(good)

\* The hit on e is the one that ends the cast.
FirstToStop(e) ==
    /\ StoppingHit(e)
    /\ \A s \in Entities : (StoppingHit(s) /\ s # e) => toi[e] < toi[s]

\* C5 (amended): a hit whose entity lookup fails is never the output and, unless
\* it is manifold-suppressed, ends the cast: the output is empty and nothing
\* behind it is recorded or appended.  A hit on an entity that is looked up but
\* has no transform and velocities is classified like any other and, when it is
\* the first to end the cast, is the output with zero entity_linvel and
\* entity_angvel.
C5_LookupFailureStopsCast ==
    (SensorRan /\ Senses) =>
        /\ IsSome(sensorOutput) => alive[Output.entity]
        /\ \A e \in Entities :
              (FirstToStop(e) /\ ~alive[e]) =>
                  /\ sensorOutput = None
                  /\ IsSome(ghostSensor) =>
                        \A g \in GhostSeqEntities : toi[g] <= toi[e]
        /\ \A e \in Entities :
              (FirstToStop(e) /\ alive[e] /\ ~kinematic[e]) =>
                  /\ IsSome(sensorOutput)
                  /\ Output.entity = e
                  /\ Output.entity_linvel = Zero3
                  /\ Output.entity_angvel = Zero3

\* C5 witness: the nearest hit is on an entity whose lookup fails, a body that
\* passes the filters is behind it, and the output is empty.
C5_Witness ==
    /\ SensorRan /\ Senses /\ sensorOutput = None
    /\ \E e, b \in Entities :
          /\ FirstToStop(e) /\ ~alive[e]
          /\ ValidHit(b) /\ alive[b] /\ toi[e] < toi[b]

\* The velocity of a body at a point: v + w x r, r from the centre to the point.
PointVelocity(e, point) ==
    Add3(Extend(linvel[e]),
         Cross(<<0, 0, angvel[e]>>,
               Extend(Sub2(point, <<translation[e][1], translation[e][2]>>))))

\* Where the Rapier cast meets e: origin + toi * (owner_rotation * direction).
RapierContactPoint(e) ==
    Add2(CastOrigin,
         Scale2(Rotate(rotation[SensorEntity] % 4, CastDirection2d), toi[e]))

\* C9: in either backend a recorded output carries the hit body's velocity at
\* the contact point, v + w x r, and its angular velocity w; both are zero for
\* a body without kinematic data.
C9_PointVelocity ==
    /\ (SensorRan /\ IsSome(sensorOutput)) =>
          LET e == Output.entity IN
          IF kinematic[e]
          THEN /\ Output.entity_linvel =
                      PointVelocity(e, CastResult(e).intersection_point)
               /\ Output.entity_angvel = <<0, 0, angvel[e]>>
          ELSE Output.entity_linvel = Zero3 /\ Output.entity_angvel = Zero3
    /\ ("rapier_sensors" \in stage /\ IsSome(rapierOutput)) =>
          LET e == Unwrap(rapierOutput).entity IN
          IF kinematic[e]
          THEN /\ Unwrap(rapierOutput).entity_linvel =
                      FVec3(PointVelocity(e, RapierContactPoint(e)))
               /\ Unwrap(rapierOutput).entity_angvel = FVec3(<<0, 0, angvel[e]>>)
          ELSE /\ Unwrap(rapierOutput).entity_linvel = FVec3(Zero3)
               /\ Unwrap(rapierOutput).entity_angvel = FVec3(Zero3)

\* A whole tick has run: the three sensor systems, then the motor applier.
TickDone == (SensorsStage \cup {"motors"}) \subseteq stage

\* What the sensor updater gives an Enabled sensor in this world: the output
\* and the ghost sequence, for each order the query may report the hits in.
FreshSenses ==
    {HitsCallback(CastResults(order), 1,
                  [output |-> None, ghost |-> GhostCleared]) :
        order \in HitOrders}
FreshOutputs == {s.output : s \in FreshSenses}

\* C2: after a full tick every SenseOnly entity has the tracker and the sensor
\* output an Enabled entity would have in the same world, zero external force
\* and zero external torque, and the linear and angular velocity it had before
\* the tick, whatever its motor and whatever force and torque it had.
C2_SenseOnlyTick ==
    \A e \in Characters :
        toggle[e] = "SenseOnly" =>
            /\ (SensorsStage \subseteq stage /\ "motors" \notin stage) =>
                  /\ tracker[e] = TrackerOf(e)
                  /\ e = SensorEntity => sensorOutput \in FreshOutputs
            /\ TickDone =>
                  /\ extForce[e] = Zero2
                  /\ extTorque[e] = 0
                  /\ linvel[e] = pre.linvel[e]
                  /\ angvel[e] = pre.angvel[e]

\* C3: while the toggle of an entity stays Disabled, however often the tracker
\* updater and the sensor updater run and whatever the physics world becomes,
\* its tracker, its sensor output and its ghost sequence are what they were
\* when the toggle was set; an entity without a toggle is updated like an
\* Enabled one.
C3_DisabledUntouched ==
    /\ \A c \in Characters :
          toggle[c] = "Disabled" =>
              /\ tracker[c] = pre.tracker[c]
              /\ c = SensorEntity =>
                    /\ sensorOutput = pre.sensorOutput
                    /\ ghostSensor = pre.ghostSensor
    /\ \A c \in Characters :
          toggle[c] = "None" =>
              /\ "trackers" \in stage => tracker[c] = TrackerOf(c)
              /\ ("sensors" \in stage /\ c = SensorEntity) =>
                    [output |-> sensorOutput, ghost |-> ghostSensor]
                        \in FreshSenses

\* C3 witness: both updaters ran on a Disabled sensor entity after the world
\* had changed, and its tracker, output and ghost sequence are still the stale
\* ones, different from what an Enabled entity gets.
C3_Witness ==
    /\ {"trackers", "sensors"} \subseteq stage
    /\ toggle[SensorEntity] = "Disabled"
    /\ ticks = MaxTicks
    /\ tracker[SensorEntity] = StaleTracker
    /\ tracker[SensorEntity] # TrackerOf(SensorEntity)
    /\ sensorOutput = Some(StaleOutput)
    /\ sensorOutput \notin FreshOutputs
    /\ ghostSensor = Some(<<StaleOutput>>)
    /\ ghostPlatform[2]

\* C10: after the radar updater has run, the seen-set of every radar is the set
\* of entities that intersect its box now, without the owner: what was seen in
\* an earlier tick only is gone, and the owner is never in its own seen-set.
C10_RadarSeenSet ==
    "radars" \in stage =>
        \A c \in Characters :
            IsSome(radar[c]) =>
                /\ Unwrap(radar[c]).seen = Intersections(c) \ {c}
                /\ c \notin Unwrap(radar[c]).seen

\* C10 witness: a radar that had seen every entity now holds a body in range
\* and has dropped one out of range and its owner.
C10_Witness ==
    /\ "radars" \in stage
    /\ \E c \in Characters :
          /\ IsSome(radar[c])
          /\ Unwrap(pre.radar[c]).seen = Entities
          /\ Unwrap(radar[c]).seen # {}
          /\ \E e \in Entities \ {c} : e \notin Unwrap(radar[c]).seen

====
